---- MODULE Spec2Model ----
(***************************************************************************)
(* A model of the journaling bot (src/src/plugins/journaling.py over       *)
(* src/src/database.py): channel provisioning on a direct message, the     *)
(* recording of journal messages and the recompute of the daily stats, the *)
(* hourly daily-reset task and the gated /gemini command.                  *)
(*                                                                         *)
(* Every database call and every call to the chat platform is one step: a  *)
(* handler is suspended while the call is in flight, and other handlers    *)
(* (of this process, or of another instance of the bot working on the same *)
(* database and guild) run in between.  A call that may raise does so by   *)
(* a nondeterministic choice, within the budget MaxFailures.               *)
(***************************************************************************)
EXTENDS Integers, Sequences, FiniteSets, TLC

\* ------------------------------------------------------------------ bounds
\* concurrent handle_dm attempts for the one identity that is provisioned
MaxAttempts == 3
\* calls (database or platform) that may fail in one behaviour
MaxFailures == 1
\* journal-channel messages delivered in one behaviour
MaxMessages == 2
\* /gemini invocations in one behaviour
MaxCommands == 1
\* the calendar days are 0..MaxDay
MaxDay == 1
\* the hours of a day that are told apart are 0..MaxHour: the first hour of
\* the day and the later ones (the code reads the hour in now.hour == 0 only)
MaxHour == 1

\* ---------------------------------------------------------------- constants
\* Config.DAILY_WORD_REQUIREMENT
DAILY_WORD_REQUIREMENT == 500
\* journal_channel_id is None (null in the users table)
NULL == 0

\* the identities (discord_id); the word counts of the messages they send
Users == {1, 2}
WordCounts == {0, 250, 500}
\* the identity whose channel is provisioned
ProvUser == 1
\* the id of the journal channel a user was bound to before the model starts
ChannelOf(u) == u
OldChannel == ChannelOf(ProvUser)

Attempts == 1..MaxAttempts
Messages == 1..MaxMessages
Commands == 1..MaxCommands
\* ids the platform hands out to the channels the attempts create
NewChannelIds == (Cardinality(Users) + 1)..(Cardinality(Users) + MaxAttempts)

VARIABLES
    users,          \* the users table: [exists, journal_channel_id] by discord_id
    text_channels,  \* guild.text_channels named journal-<name>: [id, readable]
    created,        \* ids of the channels the platform has created so far
    dm,             \* handle_dm attempts
    failures,       \* calls that have failed so far
    day, hour,      \* datetime.now(Config.TIMEZONE): the date and the hour
    journal_entries, \* the journal_entries table: [discord_id, message_id, day, word_count]
    daily_stats,    \* the daily_stats table: [discord_id, date, total_words, has_access]
    allow,          \* members with an explicit allow overwrite on the shared channel
    jm,             \* handle_journal_message handlers
    gm,             \* handle_gemini_command handlers
    llm_calls,      \* the commands that called gemini_model.generate_content
    resetDue,       \* the hourly iteration of check_daily_reset is still to run
    resetQueue      \* all_users still to be processed by the running iteration

provVars == <<users, text_channels, created, dm>>
journalVars == <<day, hour, journal_entries, daily_stats, allow, jm, gm,
                 llm_calls, resetDue, resetQueue>>

vars == <<users, text_channels, created, dm, failures, day, hour,
          journal_entries, daily_stats, allow, jm, gm, llm_calls, resetDue,
          resetQueue>>

\* users.journal_channel_id of the provisioned identity
journal_channel_id == users[ProvUser].journal_channel_id

\* ------------------------------------------------------- the chat platform
\* guild.get_channel(id): the channel of that id, when the guild still has it
GetChannel(id) == \E c \in text_channels : c.id = id

\* discord.utils.get(guild.text_channels, name=channel_name): the first channel
\* of that name in guild.text_channels (ordered by position, then id), or None
UtilsGet ==
    IF text_channels = {} THEN NULL
    ELSE CHOOSE i \in {c.id : c \in text_channels} :
             \A j \in {c.id : c \in text_channels} : i <= j

\* existing_channel.permissions_for(member).read_messages
ReadMessages(id) == \E c \in text_channels : c.id = id /\ c.readable

\* guild.create_text_channel: a channel of a fresh id, readable by the user
NewChannel == CHOOSE i \in NewChannelIds : i \notin created

\* ------------------------------------------------------------ the database
\* a variant of the update without ".is_('journal_channel_id', 'null')": the
\* row is written whatever it holds.  C11 must tell it from
\* UpdateUserJournalChannel.
UpdateUserJournalChannelAlways(stored, channel_id, only_if_null) ==
    [value |-> channel_id, updated |-> TRUE]

\* db.update_user_journal_channel(discord_id, channel_id, only_if_null): the
\* update of the rows that match, True when a row was updated
UpdateUserJournalChannel(stored, channel_id, only_if_null) ==
    IF only_if_null /\ stored # NULL
    THEN [value |-> stored, updated |-> FALSE]
    ELSE [value |-> channel_id, updated |-> TRUE]

\* ---------------------------------------------------------------- handle_dm
\* cleared: the attempt has found its bound channel gone and cleared the id
IdleDm == [pc |-> "idle", db_channel_id |-> NULL, channel |-> NULL,
           reported |-> NULL, outcome |-> "none", cleared |-> FALSE]

\* except Exception: log, reply with the apology
DmError(p) == [dm[p] EXCEPT !.pc = "done", !.outcome = "error"]

\* on_message -> handle_dm; db.get_or_create_user: the upsert keeps the stored
\* journal_channel_id and returns the row
DmStart(p) ==
    /\ dm[p].pc = "idle"
    /\ \A q \in Attempts : q < p => dm[q].pc # "idle"
    /\ users' = [users EXCEPT ![ProvUser].exists = TRUE]
    /\ dm' = [dm EXCEPT ![p].db_channel_id = journal_channel_id,
                        ![p].pc = IF journal_channel_id # NULL
                                  THEN "resolve" ELSE "lookup"]

DmGetOrCreateUser(p) ==
    /\ DmStart(p)
    /\ UNCHANGED <<text_channels, created, failures, journalVars>>

\* db_user has a journal_channel_id: reply and return when the channel is
\* still there, clear the stored id (unconditionally) when it is not
DmResolveExisting(p) ==
    /\ dm[p].pc = "resolve"
    /\ IF GetChannel(dm[p].db_channel_id)
       THEN /\ dm' = [dm EXCEPT ![p].pc = "done", ![p].outcome = "existing",
                               ![p].reported = dm[p].db_channel_id]
            /\ UNCHANGED users
       ELSE /\ users' = [users EXCEPT ![ProvUser].journal_channel_id =
                            UpdateUserJournalChannel(journal_channel_id, NULL, FALSE).value]
            /\ dm' = [dm EXCEPT ![p].pc = "lookup", ![p].cleared = TRUE]
    /\ UNCHANGED <<text_channels, created, failures, journalVars>>

\* create_journal_channel, first half: adopt the channel of the expected name
\* when the user can read it
DmLookupChannel(p) ==
    /\ dm[p].pc = "lookup"
    /\ IF UtilsGet # NULL /\ ReadMessages(UtilsGet)
       THEN dm' = [dm EXCEPT ![p].channel = UtilsGet, ![p].pc = "cas"]
       ELSE dm' = [dm EXCEPT ![p].pc = "create"]
    /\ UNCHANGED <<users, text_channels, created, failures, journalVars>>

\* create_journal_channel, second half: guild.create_text_channel
DmCreateChannel(p) ==
    /\ dm[p].pc = "create"
    /\ text_channels' = text_channels \cup {[id |-> NewChannel, readable |-> TRUE]}
    /\ created' = created \cup {NewChannel}
    /\ dm' = [dm EXCEPT ![p].channel = NewChannel, ![p].pc = "cas"]
    /\ UNCHANGED <<users, failures, journalVars>>

\* the conditional write of the binding
DmConditionalWrite(p) ==
    /\ dm[p].pc = "cas"
    /\ LET r == UpdateUserJournalChannel(journal_channel_id, dm[p].channel, TRUE)
       IN /\ users' = [users EXCEPT ![ProvUser].journal_channel_id = r.value]
          /\ dm' = [dm EXCEPT ![p].pc = IF r.updated THEN "confirm" ELSE "reread"]
    /\ UNCHANGED <<text_channels, created, failures, journalVars>>

\* not updated: db.get_user_by_discord_id
DmReread(p) ==
    /\ dm[p].pc = "reread"
    /\ dm' = [dm EXCEPT ![p].db_channel_id = journal_channel_id, ![p].pc = "dedupe"]
    /\ UNCHANGED <<users, text_channels, created, failures, journalVars>>

\* the bound channel exists and is another one: delete the channel of this
\* attempt (NotFound, when it is gone already) and use the bound one
DmDeleteDuplicate(p) ==
    /\ dm[p].pc = "dedupe"
    /\ IF /\ dm[p].db_channel_id # NULL
          /\ GetChannel(dm[p].db_channel_id)
          /\ dm[p].db_channel_id # dm[p].channel
       THEN IF GetChannel(dm[p].channel)
            THEN /\ text_channels' = {c \in text_channels : c.id # dm[p].channel}
                 /\ dm' = [dm EXCEPT ![p].channel = dm[p].db_channel_id,
                                     ![p].pc = "confirm"]
            ELSE /\ dm' = [dm EXCEPT ![p] = DmError(p)]
                 /\ UNCHANGED text_channels
       ELSE /\ dm' = [dm EXCEPT ![p].pc = "confirm"]
            /\ UNCHANGED text_channels
    /\ UNCHANGED <<users, created, failures, journalVars>>

\* message.reply("Created your journal channel ..."), channel.send(welcome):
\* the send raises NotFound when the channel is gone
DmConfirm(p) ==
    /\ dm[p].pc = "confirm"
    /\ dm' = [dm EXCEPT ![p].pc = "done", ![p].reported = dm[p].channel,
                        ![p].outcome = IF GetChannel(dm[p].channel)
                                       THEN "created" ELSE "error"]
    /\ UNCHANGED <<users, text_channels, created, failures, journalVars>>

\* a call of the attempt raises: the database calls re-raise, and so do the
\* platform's; get_user_by_discord_id alone returns None instead
DmCallFails(p) ==
    /\ failures < MaxFailures
    /\ failures' = failures + 1
    /\ \/ /\ dm[p].pc \in {"idle", "create", "cas"}
          /\ dm' = [dm EXCEPT ![p] = DmError(p)]
       \/ /\ dm[p].pc = "resolve" /\ ~GetChannel(dm[p].db_channel_id)
          /\ dm' = [dm EXCEPT ![p] = DmError(p)]
       \/ /\ dm[p].pc = "reread"
          /\ dm' = [dm EXCEPT ![p].db_channel_id = NULL, ![p].pc = "dedupe"]
       \/ /\ dm[p].pc = "dedupe"
          /\ dm[p].db_channel_id # NULL
          /\ GetChannel(dm[p].db_channel_id)
          /\ dm[p].db_channel_id # dm[p].channel
          /\ dm' = [dm EXCEPT ![p] = DmError(p)]
    /\ UNCHANGED <<users, text_channels, created, journalVars>>

\* ------------------------------------------------------ provisioning: Spec
NoUser == [exists |-> FALSE, journal_channel_id |-> NULL]

ProvInit ==
    /\ users \in {[u \in Users |-> IF u = ProvUser THEN r ELSE NoUser] :
                    r \in {NoUser,
                           [exists |-> TRUE, journal_channel_id |-> NULL],
                           [exists |-> TRUE, journal_channel_id |-> OldChannel]}}
    \* the old channel: deleted; or there, the user's; or, when it is not
    \* bound, a channel of the same name that the user cannot read
    /\ text_channels \in {{}, {[id |-> OldChannel, readable |-> TRUE]}}
                          \cup (IF journal_channel_id = NULL
                                THEN {{[id |-> OldChannel, readable |-> FALSE]}}
                                ELSE {})
    /\ created = {}
    /\ dm = [p \in Attempts |-> IdleDm]
    /\ failures = 0
    /\ day = 0 /\ hour = 0
    /\ journal_entries = <<>> /\ daily_stats = <<>> /\ allow = {}
    /\ jm = <<>> /\ gm = <<>> /\ llm_calls = {}
    /\ resetDue = FALSE /\ resetQueue = <<>>

ProvNext ==
    \E p \in Attempts :
        \/ DmGetOrCreateUser(p)
        \/ DmResolveExisting(p)
        \/ DmLookupChannel(p)
        \/ DmCreateChannel(p)
        \/ DmConditionalWrite(p)
        \/ DmReread(p)
        \/ DmDeleteDuplicate(p)
        \/ DmConfirm(p)
        \/ DmCallFails(p)

ProvSpec == ProvInit /\ [][ProvNext]_vars

\* ------------------------------------------------- the journal: database
RECURSIVE SumWordCount(_)
\* sum(entry['word_count'] for entry in entries)
SumWordCount(entries) ==
    IF entries = <<>> THEN 0
    ELSE Head(entries).word_count + SumWordCount(Tail(entries))

\* db.get_journal_entries_for_date(discord_id, target_date): the rows of the
\* user whose created_at lies in the day
SameUserAndDay(e, discord_id, target_date) ==
    e.discord_id = discord_id /\ e.day = target_date

GetJournalEntriesForDate(discord_id, target_date) ==
    SelectSeq(journal_entries,
              LAMBDA e : SameUserAndDay(e, discord_id, target_date))

\* db.get_all_journal_entries_for_date(target_date)
GetAllJournalEntriesForDate(target_date) ==
    SelectSeq(journal_entries, LAMBDA e : e.day = target_date)

\* has_access = total_words >= Config.DAILY_WORD_REQUIREMENT
HasAccess(total_words) == total_words >= DAILY_WORD_REQUIREMENT

\* the daily_stats rows of (discord_id, target_date), by position in the table
StatsRows(discord_id, target_date) ==
    {i \in DOMAIN daily_stats : /\ daily_stats[i].discord_id = discord_id
                                /\ daily_stats[i].date = target_date}

\* a variant of the insert whose row carries words already.  C16 must tell it
\* from NewStats.
NewStatsFull(discord_id, target_date) ==
    [discord_id |-> discord_id, date |-> target_date,
     total_words |-> DAILY_WORD_REQUIREMENT, has_access |-> FALSE]

\* get_or_create_daily_stats, the insert: a row with total 0 and no access
NewStats(discord_id, target_date) ==
    [discord_id |-> discord_id, date |-> target_date, total_words |-> 0,
     has_access |-> FALSE]

\* db.update_daily_stats: the update of every row of (discord_id, target_date)
UpdateDailyStats(discord_id, target_date, total_words, has_access) ==
    [i \in DOMAIN daily_stats |->
        IF i \in StatsRows(discord_id, target_date)
        THEN [daily_stats[i] EXCEPT !.total_words = total_words,
                                    !.has_access = has_access]
        ELSE daily_stats[i]]

\* db.create_journal_entry: the row; created_at is the time of the insert
NewEntry(discord_id, message_id, word_count) ==
    [discord_id |-> discord_id, message_id |-> message_id, day |-> day,
     word_count |-> word_count]

\* db.get_all_users_with_journals: the rows with a journal_channel_id
RECURSIVE UsersWithJournals(_)
UsersWithJournals(S) ==
    IF S = {} THEN <<>>
    ELSE LET u == CHOOSE x \in S : \A y \in S : x <= y
         IN (IF users[u].exists /\ users[u].journal_channel_id # NULL
             THEN <<u>> ELSE <<>>) \o UsersWithJournals(S \ {u})

\* ------------------------------------------------- handle_journal_message
IdleJm == [pc |-> "idle", user |-> 0, message_id |-> 0, word_count |-> 0,
           today |-> 0, total_words |-> 0, reply |-> "none"]

\* the messages on_message may hand to handler h: a new message (message.id,
\* message.author.id, len(content.split())), or a message that an earlier
\* handler was given, delivered again by the platform
Deliveries(h) ==
    {[message_id |-> h, user |-> u, word_count |-> w] :
        u \in Users, w \in WordCounts}
    \cup {[message_id |-> jm[k].message_id, user |-> jm[k].user,
           word_count |-> jm[k].word_count] : k \in {j \in Messages : j < h}}

\* the handler has taken the message
Taken(h, m, pc) ==
    [jm[h] EXCEPT !.pc = pc, !.user = m.user, !.message_id = m.message_id,
                  !.word_count = m.word_count]

\* a variant of the insert that keeps one row for a message_id: a message
\* that is delivered again adds nothing.  C26 must tell it from
\* CreateJournalEntry.
CreateJournalEntryOnce(m) ==
    IF \E i \in DOMAIN journal_entries :
          journal_entries[i].message_id = m.message_id
    THEN journal_entries
    ELSE Append(journal_entries, NewEntry(m.user, m.message_id, m.word_count))

\* db.create_journal_entry: the insert of the row, whatever rows there are
CreateJournalEntry(m) ==
    Append(journal_entries, NewEntry(m.user, m.message_id, m.word_count))

\* a variant of the handler without "if word_count == 0: return": every
\* message is recorded.  C8 must tell it from JmRecord.
JmRecordEvery(h) ==
    /\ jm[h].pc = "idle"
    /\ \A k \in Messages : k < h => jm[k].pc # "idle"
    /\ \E m \in Deliveries(h) :
        /\ users' = [users EXCEPT ![m.user].exists = TRUE]
        /\ journal_entries' = CreateJournalEntry(m)
        /\ jm' = [jm EXCEPT ![h] = Taken(h, m, "recompute")]
    /\ UNCHANGED <<text_channels, created, dm, failures, day, hour, daily_stats,
                   allow, gm, llm_calls, resetDue, resetQueue>>

\* on_message -> handle_journal_message: word_count = len(content.split());
\* no words: return; else db.create_journal_entry (the user row is created
\* when it is missing)
JmRecord(h) ==
    /\ jm[h].pc = "idle"
    /\ \A k \in Messages : k < h => jm[k].pc # "idle"
    /\ \E m \in Deliveries(h) :
        IF m.word_count = 0
        THEN /\ jm' = [jm EXCEPT ![h] = Taken(h, m, "done")]
             /\ UNCHANGED <<users, journal_entries>>
        ELSE /\ users' = [users EXCEPT ![m.user].exists = TRUE]
             /\ journal_entries' = CreateJournalEntry(m)
             /\ jm' = [jm EXCEPT ![h] = Taken(h, m, "recompute")]
    /\ UNCHANGED <<text_channels, created, dm, failures, day, hour, daily_stats,
                   allow, gm, llm_calls, resetDue, resetQueue>>

\* update_user_daily_stats: today, the entries of today, their total
JmRecompute(h) ==
    /\ jm[h].pc = "recompute"
    /\ jm' = [jm EXCEPT ![h].pc = "select", ![h].today = day,
                        ![h].total_words =
                            SumWordCount(GetJournalEntriesForDate(jm[h].user, day))]
    /\ UNCHANGED <<provVars, failures, day, hour, journal_entries, daily_stats,
                   allow, gm, llm_calls, resetDue, resetQueue>>

\* get_or_create_daily_stats, the select
JmSelectStats(h) ==
    /\ jm[h].pc = "select"
    /\ jm' = [jm EXCEPT ![h].pc =
                 IF StatsRows(jm[h].user, jm[h].today) # {}
                 THEN "update" ELSE "insert"]
    /\ UNCHANGED <<provVars, failures, day, hour, journal_entries, daily_stats,
                   allow, gm, llm_calls, resetDue, resetQueue>>

\* get_or_create_daily_stats, the insert after a select that found no row
JmInsertStats(h) ==
    /\ jm[h].pc = "insert"
    /\ daily_stats' = Append(daily_stats, NewStats(jm[h].user, jm[h].today))
    /\ jm' = [jm EXCEPT ![h].pc = "update"]
    /\ UNCHANGED <<provVars, failures, day, hour, journal_entries, allow, gm,
                   llm_calls, resetDue, resetQueue>>

\* db.update_daily_stats(discord_id, today, total_words, has_access)
JmUpdateStats(h) ==
    /\ jm[h].pc = "update"
    /\ daily_stats' = UpdateDailyStats(jm[h].user, jm[h].today, jm[h].total_words,
                                       HasAccess(jm[h].total_words))
    /\ jm' = [jm EXCEPT ![h].pc = "feedback"]
    /\ UNCHANGED <<provVars, failures, day, hour, journal_entries, allow, gm,
                   llm_calls, resetDue, resetQueue>>

\* a variant of the feedback without "if total_words >= DAILY_WORD_REQUIREMENT":
\* every recorded message grants.  C15 must tell it from JmFeedback.
JmFeedbackAlways(h) ==
    /\ jm[h].pc = "feedback"
    /\ allow' = allow \cup {jm[h].user}
    /\ jm' = [jm EXCEPT ![h].pc = "done", ![h].reply = "unlocked"]
    /\ UNCHANGED <<provVars, failures, day, hour, journal_entries, daily_stats,
                   gm, llm_calls, resetDue, resetQueue>>

\* the feedback: at the requirement or over it, shared_channel.set_permissions(
\* member, read_messages=True, send_messages=True) and the congratulation;
\* under it, the words that remain
JmFeedback(h) ==
    /\ jm[h].pc = "feedback"
    /\ IF jm[h].total_words >= DAILY_WORD_REQUIREMENT
       THEN /\ allow' = allow \cup {jm[h].user}
            /\ jm' = [jm EXCEPT ![h].pc = "done", ![h].reply = "unlocked"]
       ELSE /\ jm' = [jm EXCEPT ![h].pc = "done", ![h].reply = "remaining"]
            /\ UNCHANGED allow
    /\ UNCHANGED <<provVars, failures, day, hour, journal_entries, daily_stats,
                   gm, llm_calls, resetDue, resetQueue>>

\* a call of the handler raises.  create_journal_entry re-raises: the handler
\* logs and ends.  get_journal_entries_for_date returns [] instead.  Inside
\* update_user_daily_stats the exception is caught and 0 is returned; but
\* update_daily_stats returns without a write, and without an exception, when
\* its look-up of the user fails (get_user_by_discord_id returns None).
\* set_permissions: the handler logs and replies with a note.
JmCallFails(h) ==
    /\ failures < MaxFailures
    /\ failures' = failures + 1
    /\ \/ /\ jm[h].pc = "idle"
          /\ \A k \in Messages : k < h => jm[k].pc # "idle"
          /\ \E m \in Deliveries(h) :
                /\ m.word_count # 0
                /\ jm' = [jm EXCEPT ![h] = Taken(h, m, "done")]
       \/ /\ jm[h].pc = "recompute"
          /\ jm' = [jm EXCEPT ![h].pc = "select", ![h].today = day,
                              ![h].total_words = SumWordCount(<<>>)]
       \/ /\ jm[h].pc \in {"select", "insert", "update"}
          /\ jm' = [jm EXCEPT ![h].pc = "feedback", ![h].total_words = 0]
       \/ /\ jm[h].pc = "update"
          /\ jm' = [jm EXCEPT ![h].pc = "feedback"]
       \/ /\ jm[h].pc = "feedback"
          /\ jm[h].total_words >= DAILY_WORD_REQUIREMENT
          /\ jm' = [jm EXCEPT ![h].pc = "done", ![h].reply = "note"]
    /\ UNCHANGED <<provVars, day, hour, journal_entries, daily_stats, allow, gm,
                   llm_calls, resetDue, resetQueue>>

\* ------------------------------------------------------ check_daily_reset
\* the clock moves to the next hour; tasks.loop(hours=1) runs the check once
\* in every hour
Tick ==
    /\ ~resetDue /\ resetQueue = <<>>
    /\ hour < MaxHour \/ day < MaxDay
    /\ hour' = IF hour = MaxHour THEN 0 ELSE hour + 1
    /\ day' = IF hour = MaxHour THEN day + 1 ELSE day
    /\ resetDue' = TRUE
    /\ UNCHANGED <<provVars, failures, journal_entries, daily_stats, allow, jm,
                   gm, llm_calls, resetQueue>>

\* check_daily_reset: in the first hour of the day, the users with a journal
\* channel are read, to have their overwrite removed
ResetCheck ==
    /\ resetDue
    /\ resetDue' = FALSE
    /\ resetQueue' = IF hour = 0 THEN UsersWithJournals(Users) ELSE <<>>
    /\ UNCHANGED <<provVars, failures, day, hour, journal_entries, daily_stats,
                   allow, jm, gm, llm_calls>>

\* for user_data in all_users: shared_channel.set_permissions(member,
\* overwrite=None)
ResetRevoke ==
    /\ resetQueue # <<>>
    /\ allow' = allow \ {Head(resetQueue)}
    /\ resetQueue' = Tail(resetQueue)
    /\ UNCHANGED <<provVars, failures, day, hour, journal_entries, daily_stats,
                   jm, gm, llm_calls, resetDue>>

\* get_all_users_with_journals returns [] when its query fails; an exception
\* of set_permissions leaves the loop: it is caught around the whole check
ResetCallFails ==
    /\ failures < MaxFailures
    /\ failures' = failures + 1
    /\ \/ /\ resetDue /\ hour = 0
          /\ resetDue' = FALSE
          /\ resetQueue' = <<>>
       \/ /\ resetQueue # <<>>
          /\ resetQueue' = <<>>
          /\ UNCHANGED resetDue
    /\ UNCHANGED <<provVars, day, hour, journal_entries, daily_stats, allow, jm,
                   gm, llm_calls>>

\* -------------------------------------------------- handle_gemini_command
IdleGm == [pc |-> "idle", user |-> 0, today |-> 0, reply |-> "none"]

\* a variant of the gate without "if not stats['has_access']": every command
\* goes on.  C9 must tell it from GmGate.
GmGateOpen(g, has_access) == [gm[g] EXCEPT !.pc = "entries"]

\* the row get_or_create_daily_stats returns decides: no has_access, the
\* command is refused; else the response is deferred
GmGate(g, has_access) ==
    IF has_access THEN [gm[g] EXCEPT !.pc = "entries"]
    ELSE [gm[g] EXCEPT !.pc = "done", !.reply = "refused"]

\* the command arrives.  Outside the shared channel it is refused.  Else
\* get_or_create_daily_stats(interaction.user.id, today): ValueError when the
\* user has no row; the select, whose first row is returned
GmInvoke(g) ==
    /\ gm[g].pc = "idle"
    /\ \A k \in Commands : k < g => gm[k].pc # "idle"
    /\ \E u \in Users, in_shared \in BOOLEAN :
        LET me == [gm[g] EXCEPT !.user = u, !.today = day]
        IN  IF ~in_shared
            THEN gm' = [gm EXCEPT ![g] = [me EXCEPT !.pc = "done",
                                                    !.reply = "wrong_channel"]]
            ELSE IF ~users[u].exists
            THEN gm' = [gm EXCEPT ![g] = [me EXCEPT !.pc = "done",
                                                    !.reply = "error"]]
            ELSE IF StatsRows(u, day) = {}
            THEN gm' = [gm EXCEPT ![g] = [me EXCEPT !.pc = "insert"]]
            ELSE \E i \in StatsRows(u, day) :
                    gm' = [gm EXCEPT ![g] =
                              [GmGate(g, daily_stats[i].has_access)
                                  EXCEPT !.user = u, !.today = day]]
    /\ UNCHANGED <<provVars, failures, day, hour, journal_entries, daily_stats,
                   allow, jm, llm_calls, resetDue, resetQueue>>

\* get_or_create_daily_stats, the insert: the new row is the one returned
GmInsertStats(g) ==
    /\ gm[g].pc = "insert"
    /\ daily_stats' = Append(daily_stats, NewStats(gm[g].user, gm[g].today))
    /\ gm' = [gm EXCEPT ![g] = GmGate(g, NewStats(gm[g].user, gm[g].today).has_access)]
    /\ UNCHANGED <<provVars, failures, day, hour, journal_entries, allow, jm,
                   llm_calls, resetDue, resetQueue>>

\* db.get_all_journal_entries_for_date(today); none: "No journal entries"
GmFetchEntries(g) ==
    /\ gm[g].pc = "entries"
    /\ gm' = [gm EXCEPT ![g] =
                 IF GetAllJournalEntriesForDate(gm[g].today) = <<>>
                 THEN [gm[g] EXCEPT !.pc = "done", !.reply = "no_entries"]
                 ELSE [gm[g] EXCEPT !.pc = "llm"]]
    /\ UNCHANGED <<provVars, failures, day, hour, journal_entries, daily_stats,
                   allow, jm, llm_calls, resetDue, resetQueue>>

\* self.gemini_model.generate_content(full_prompt); the response is sent
GmCallLLM(g) ==
    /\ gm[g].pc = "llm"
    /\ llm_calls' = llm_calls \cup {g}
    /\ gm' = [gm EXCEPT ![g].pc = "done", ![g].reply = "response"]
    /\ UNCHANGED <<provVars, failures, day, hour, journal_entries, daily_stats,
                   allow, jm, resetDue, resetQueue>>

\* a variant of the failing calls without the "except Exception" around the
\* call of the model: the exception of generate_content leaves the handler.
\* C25 must tell it from GmCallFails.
GmCallFailsUncaught(g) ==
    /\ failures < MaxFailures
    /\ failures' = failures + 1
    /\ gm[g].pc = "llm"
    /\ llm_calls' = llm_calls \cup {g}
    /\ gm' = [gm EXCEPT ![g].pc = "raised"]
    /\ UNCHANGED <<provVars, day, hour, journal_entries, daily_stats, allow, jm,
                   resetDue, resetQueue>>

\* a call of the command raises: the apology is sent.  A failed read of the
\* entries returns [] instead.
GmCallFails(g) ==
    /\ failures < MaxFailures
    /\ failures' = failures + 1
    /\ \/ /\ gm[g].pc = "idle"
          /\ \A k \in Commands : k < g => gm[k].pc # "idle"
          /\ \E u \in Users :
                gm' = [gm EXCEPT ![g].pc = "done", ![g].user = u,
                                 ![g].today = day, ![g].reply = "error"]
          /\ UNCHANGED llm_calls
       \/ /\ gm[g].pc = "insert"
          /\ gm' = [gm EXCEPT ![g].pc = "done", ![g].reply = "error"]
          /\ UNCHANGED llm_calls
       \/ /\ gm[g].pc = "entries"
          /\ gm' = [gm EXCEPT ![g].pc = "done", ![g].reply = "no_entries"]
          /\ UNCHANGED llm_calls
       \/ /\ gm[g].pc = "llm"
          /\ llm_calls' = llm_calls \cup {g}
          /\ gm' = [gm EXCEPT ![g].pc = "done", ![g].reply = "error"]
    /\ UNCHANGED <<provVars, day, hour, journal_entries, daily_stats, allow, jm,
                   resetDue, resetQueue>>

\* ------------------------------------------------------------ the journal
\* The bot starts in the first hour of day 0; user 1 has a journal channel,
\* user 2 has one too or has no row yet (a row without a channel is written
\* with the first entry).
Init ==
    /\ users \in {[u \in Users |->
                     IF u = ProvUser \/ both
                     THEN [exists |-> TRUE, journal_channel_id |-> ChannelOf(u)]
                     ELSE NoUser] : both \in BOOLEAN}
    /\ text_channels = {} /\ created = {} /\ dm = <<>>
    /\ failures = 0
    /\ day = 0 /\ hour = 0
    /\ journal_entries = <<>> /\ daily_stats = <<>> /\ allow = {}
    /\ jm = [h \in Messages |-> IdleJm]
    /\ gm = <<>>
    /\ llm_calls = {}
    /\ resetDue = TRUE /\ resetQueue = <<>>

JmNext ==
    \E h \in Messages :
        \/ JmRecord(h)
        \/ JmRecompute(h)
        \/ JmSelectStats(h)
        \/ JmInsertStats(h)
        \/ JmUpdateStats(h)
        \/ JmFeedback(h)
        \/ JmCallFails(h)

\* the journal messages, the clock and the daily reset
Next ==
    \/ JmNext
    \/ Tick
    \/ ResetCheck
    \/ ResetRevoke
    \/ ResetCallFails

Spec == Init /\ [][Next]_vars

\* ------------------------------------------------------------ the command
\* check_daily_reset does not touch what the command reads: here its hourly
\* iteration is not followed
GateInit ==
    /\ users \in {[u \in Users |->
                     IF u = ProvUser
                     THEN [exists |-> TRUE, journal_channel_id |-> ChannelOf(u)]
                     ELSE NoUser]}
    /\ text_channels = {} /\ created = {} /\ dm = <<>>
    /\ failures = 0
    /\ day = 0 /\ hour = 0
    /\ journal_entries = <<>> /\ daily_stats = <<>> /\ allow = {}
    /\ jm = [h \in Messages |-> IdleJm]
    /\ gm = [g \in Commands |-> IdleGm]
    /\ llm_calls = {}
    /\ resetDue = FALSE /\ resetQueue = <<>>

\* the clock moves to the next hour
GateTick ==
    /\ hour < MaxHour \/ day < MaxDay
    /\ hour' = IF hour = MaxHour THEN 0 ELSE hour + 1
    /\ day' = IF hour = MaxHour THEN day + 1 ELSE day
    /\ UNCHANGED <<provVars, failures, journal_entries, daily_stats, allow, jm,
                   gm, llm_calls, resetDue, resetQueue>>

GateNext ==
    \/ JmNext
    \/ \E g \in Commands :
        \/ GmInvoke(g)
        \/ GmInsertStats(g)
        \/ GmFetchEntries(g)
        \/ GmCallLLM(g)
        \/ GmCallFails(g)
    \/ GateTick

GateSpec == GateInit /\ [][GateNext]_vars


\* --------------------------------------------------------------------- C1
\* every attempt that was started has completed, and one was started
AllAttemptsDone ==
    /\ \A p \in Attempts : dm[p].pc \in {"idle", "done"}
    /\ \E p \in Attempts : dm[p].pc = "done"

\* the journal channels of the user that exist in the guild
SurvivingChannels == {c.id : c \in {d \in text_channels : d.readable}}

\* C1: once all of N >= 1 concurrent handle_dm attempts for one identity have
\* completed (none of their calls having failed), the user row holds a
\* non-null journal_channel_id and exactly one journal channel of the user
\* exists, the bound one: every other channel an attempt created is deleted.
C1_ExactlyOneChannelSurvives ==
    (AllAttemptsDone /\ failures = 0) =>
        /\ journal_channel_id # NULL
        /\ SurvivingChannels = {journal_channel_id}

\* ----------------------------------------------------- the stats, restated
\* the sum of the word counts of the persisted entries of a user and a day,
\* counted word count by word count
PersistedWords(u, d) ==
    LET n(w) == Cardinality({i \in DOMAIN journal_entries :
                                /\ journal_entries[i].discord_id = u
                                /\ journal_entries[i].day = d
                                /\ journal_entries[i].word_count = w})
    IN  n(250) * 250 + n(500) * 500

\* update_user_daily_stats has returned to handler h
Recomputed(h) ==
    \/ jm[h].pc = "feedback"
    \/ jm[h].pc = "done" /\ jm[h].reply # "none"

\* no handler is between its insert and the end of its recompute
NoRecomputeInFlight ==
    \A h \in Messages : jm[h].pc = "idle" \/ jm[h].pc = "done" \/ Recomputed(h)

\* --------------------------------------------------------------------- C2
\* C2: update_user_daily_stats writes a daily_stats row whose total_words is
\* the exact sum of the word counts of the user's persisted entries of the
\* day and whose has_access is (total_words >= DAILY_WORD_REQUIREMENT), and
\* returns that total.  Stated of the write of a recompute that runs alone
\* (no other message has been handled).
C2_RecomputeWritesExactSum ==
    [][\A h \in Messages :
          (JmUpdateStats(h) /\ \A k \in Messages \ {h} : jm[k].pc = "idle") =>
              LET sum == PersistedWords(jm[h].user, jm[h].today)
              IN  /\ \A i \in StatsRows(jm[h].user, jm[h].today) :
                        /\ daily_stats'[i].total_words = sum
                        /\ daily_stats'[i].has_access = (sum >= DAILY_WORD_REQUIREMENT)
                  /\ jm'[h].total_words = sum]_vars

\* --------------------------------------------------------------------- C3
\* C3: the stored total_words of a (user, date) equals the sum of the word
\* counts of the user's persisted entries of that date, once the handlers
\* that were started have run to completion.  Stated for handlers whose calls
\* all succeeded and that all ran within day 0.
C3_StoredTotalIsSumOfEntries ==
    (NoRecomputeInFlight /\ failures = 0 /\ day = 0) =>
        \A u \in Users :
            /\ PersistedWords(u, 0) > 0 => StatsRows(u, 0) # {}
            /\ \A i \in StatsRows(u, 0) :
                  daily_stats[i].total_words = PersistedWords(u, 0)

\* --------------------------------------------------------------------- C7
\* C7: the has_access flag of a daily_stats row never goes from true to false.
C7_HasAccessNeverRegresses ==
    [][\A i \in DOMAIN daily_stats :
          daily_stats[i].has_access => daily_stats'[i].has_access]_vars

\* --------------------------------------------------------------------- C4
\* the step that ends the iteration of check_daily_reset of the first hour of
\* a day after day 0
BoundaryResetEnds ==
    /\ day > 0 /\ hour = 0
    /\ resetDue \/ resetQueue # <<>>
    /\ ~resetDue' /\ resetQueue' = <<>>

\* C4: when the daily boundary task has run, no user holds an explicit allow
\* on the shared channel.  Stated of the users who have not written the
\* required words on the new day, and of runs in which no call has failed.
C4_NoAllowAfterBoundaryReset ==
    [][(BoundaryResetEnds /\ failures' = 0) =>
          \A u \in allow' : PersistedWords(u, day) >= DAILY_WORD_REQUIREMENT]_vars

\* --------------------------------------------------------------------- C5
\* a row of today says the user has access
HasAccessToday(u) == \E i \in StatsRows(u, day) : daily_stats[i].has_access

\* C5: one pass over the users with a journal_channel_id leaves the explicit
\* allow of each present exactly when the has_access of the user of today is
\* true.  Stated of a pass that has ended with no handler at work and no call
\* having failed.
C5_PassMatchesHasAccess ==
    (/\ ~resetDue /\ resetQueue = <<>>
     /\ failures = 0
     /\ \A h \in Messages : jm[h].pc \in {"idle", "done"}) =>
        \A u \in Users :
            (users[u].exists /\ users[u].journal_channel_id # NULL) =>
                (u \in allow <=> HasAccessToday(u))

\* --------------------------------------------------------------------- C6
\* C6: the explicit allow a user was granted on a day is not removed before
\* the day changes.  Stated of a user whose entries of the day reach the
\* requirement.
C6_AllowKeptWithinDay ==
    [][\A u \in Users :
          (/\ u \in allow
           /\ PersistedWords(u, day) >= DAILY_WORD_REQUIREMENT
           /\ day' = day) => u \in allow']_vars

\* --------------------------------------------------------------------- C8
\* C8: a journal message of zero words creates no entry, creates or changes
\* no daily_stats row, changes no permission and gets no reply; and every
\* persisted entry has a word_count >= 1.
C8_ZeroWordMessageIsNoOp ==
    /\ [](\A i \in DOMAIN journal_entries : journal_entries[i].word_count >= 1)
    /\ [](\A h \in Messages :
            (jm[h].pc # "idle" /\ jm[h].word_count = 0) =>
                jm[h].pc = "done" /\ jm[h].reply = "none")
    /\ [][\A h \in Messages :
            (jm[h].pc = "idle" /\ jm'[h].pc # "idle" /\ jm'[h].word_count = 0) =>
                UNCHANGED <<users, journal_entries, daily_stats, allow>>]_vars

\* a message of zero words has been handled, after one that was recorded
C8_Witness ==
    \E h \in Messages :
        /\ jm[h].pc = "done" /\ jm[h].user # 0 /\ jm[h].word_count = 0
        /\ journal_entries # <<>>

\* --------------------------------------------------------------------- C9
\* no daily_stats row of (u, d) has has_access
NoAccessRow(u, d) ==
    \A i \in DOMAIN daily_stats :
        (daily_stats[i].discord_id = u /\ daily_stats[i].date = d) =>
            ~daily_stats[i].has_access

\* C9: a /gemini command of a user whose daily_stats of the current date has
\* has_access false, or who has no daily_stats of the current date, is
\* refused, and the command never calls the LLM.
C9_NoAccessNoLLMCall ==
    /\ [][\A g \in Commands :
            (/\ gm[g].pc = "idle" /\ gm'[g].pc # "idle"
             /\ NoAccessRow(gm'[g].user, day)) =>
                /\ gm'[g].pc \in {"done", "insert"}
                /\ gm'[g].reply # "response"
                /\ g \notin llm_calls']_vars
    /\ [][\A g \in Commands :
            gm[g].pc = "insert" =>
                /\ gm'[g].pc \in {"done", "insert"}
                /\ gm'[g].reply \in {"none", "refused", "error"}
                /\ g \notin llm_calls']_vars
    /\ [](\A g \in Commands :
            gm[g].reply \in {"refused", "wrong_channel"} =>
                gm[g].pc = "done" /\ g \notin llm_calls)

\* a command was refused on day 1 to a user whose row of day 0 has has_access
C9_Witness ==
    \E g \in Commands :
        /\ gm[g].reply = "refused" /\ gm[g].today = 1
        /\ \E i \in DOMAIN daily_stats :
              /\ daily_stats[i].discord_id = gm[g].user
              /\ daily_stats[i].date = 0
              /\ daily_stats[i].has_access

\* -------------------------------------------------------------------- C10
\* update_user_daily_stats called in sequence for one user, over entries that
\* are already persisted: call h starts when call h - 1 has returned
RecEntries ==
    LET E == [discord_id : Users, day : {0}, word_count : WordCounts \ {0}]
    IN  UNION {{[i \in 1..n |->
                    NewEntry(f[i].discord_id, i, f[i].word_count)] :
                f \in [1..n -> E]} : n \in 0..MaxMessages}

RecInit ==
    /\ users = [u \in Users |-> [exists |-> TRUE, journal_channel_id |-> ChannelOf(u)]]
    /\ text_channels = {} /\ created = {} /\ dm = <<>> /\ failures = 0
    /\ day = 0 /\ hour = 0
    /\ journal_entries \in RecEntries
    /\ daily_stats = <<>>
    /\ allow = {}
    /\ \E u \in Users :
          jm = [h \in Messages |->
                  IF h = 1 THEN [IdleJm EXCEPT !.pc = "recompute", !.user = u]
                  ELSE IdleJm]
    /\ gm = <<>> /\ llm_calls = {}
    /\ resetDue = FALSE /\ resetQueue = <<>>

RecCall(h) ==
    /\ h > 1 /\ jm[h].pc = "idle" /\ Recomputed(h - 1)
    /\ jm' = [jm EXCEPT ![h].pc = "recompute", ![h].user = jm[h - 1].user]
    /\ UNCHANGED <<provVars, failures, day, hour, journal_entries, daily_stats,
                   allow, gm, llm_calls, resetDue, resetQueue>>

RecCallFails(h) == jm[h].pc # "idle" /\ JmCallFails(h)

RecNext ==
    \E h \in Messages :
        \/ RecCall(h) \/ JmRecompute(h) \/ JmSelectStats(h) \/ JmInsertStats(h)
        \/ JmUpdateStats(h) \/ JmFeedback(h) \/ RecCallFails(h)

RecSpec == RecInit /\ [][RecNext]_vars

\* C10: update_user_daily_stats called a second time for the same user, with
\* no entry inserted in between, leaves in the daily_stats row the
\* total_words and the has_access that the first call left.  Stated of a
\* first call that wrote a total above zero.
C10_SecondRecomputeKeepsRow ==
    \A h \in Messages \ {1} :
        (Recomputed(h - 1) /\ Recomputed(h) /\ jm[h - 1].total_words > 0) =>
            \A i \in StatsRows(jm[h].user, jm[h].today) :
                /\ daily_stats[i].total_words = jm[h - 1].total_words
                /\ daily_stats[i].has_access = HasAccess(jm[h - 1].total_words)

\* -------------------------------------------------------------------- C11
\* C11: update_user_journal_channel with only_if_null=True sets
\* journal_channel_id and returns True when the stored value is null, and then
\* the stored value is not null any more; when the stored value is not null
\* it returns False and leaves the stored value as it is.  So of the
\* conditional writes that race on a null binding one returns True, and a
\* second one can return True only after the binding has been cleared.
C11_ConditionalWriteOnlyIfNull ==
    [][\A p \in Attempts :
          (dm[p].pc = "cas" /\ dm'[p].pc # "cas" /\ dm'[p].outcome # "error") =>
              IF journal_channel_id = NULL
              THEN /\ journal_channel_id' = dm[p].channel
                   /\ journal_channel_id' # NULL
                   /\ dm'[p].pc = "confirm"
              ELSE /\ journal_channel_id' = journal_channel_id
                   /\ dm'[p].pc = "reread"]_vars

\* one attempt has won the conditional write and is about to confirm, another
\* has lost it with a channel of its own
C11_Witness ==
    \E p, q \in Attempts :
        /\ dm[p].pc = "reread" /\ dm[q].pc = "confirm"
        /\ journal_channel_id = dm[q].channel
        /\ dm[p].channel # dm[q].channel

\* -------------------------------------------------------------------- C12
\* C12: once journal_channel_id is bound to a channel that the guild still
\* has, no provisioning attempt clears or changes it.  Stated of runs in which
\* no call has failed.
C12_BindingIsStable ==
    [][(/\ journal_channel_id # NULL
        /\ GetChannel(journal_channel_id)
        /\ failures' = 0) => journal_channel_id' = journal_channel_id]_vars

\* -------------------------------------------------------------------- C18
\* C18: an attempt whose conditional write found the binding set goes on to
\* its confirmation with the channel that is bound in the user record, and
\* the channel it had before, when it is another one, is deleted.  Stated of
\* runs in which no call has failed.
C18_LoserAdoptsBoundChannel ==
    [][\A p \in Attempts :
          (dm[p].pc = "dedupe" /\ dm'[p].pc = "confirm" /\ failures' = 0) =>
              /\ dm'[p].channel = journal_channel_id'
              /\ dm[p].channel # dm'[p].channel =>
                    ~\E c \in text_channels' : c.id = dm[p].channel]_vars

\* -------------------------------------------------------------------- C13
\* C13: in the loop of check_daily_reset a permission update that fails is
\* skipped: the users after it in the list are still to be processed.
C13_FailedUpdateDoesNotAbortPass ==
    [][resetQueue # <<>> =>
          resetQueue' = resetQueue \/ resetQueue' = Tail(resetQueue)]_vars

\* -------------------------------------------------------------------- C14
\* no handle_journal_message is at work
HandlersQuiet == \A h \in Messages : jm[h].pc \in {"idle", "done"}

\* C14: a user who has written the required words on a day and whose allow
\* the reset of that day has removed is granted the allow again on that day,
\* with no further message: so when the day ends, with no handler at work
\* and no call having failed, every user whose entries of the day reach the
\* requirement holds the allow.
C14_RegrantedBeforeDayEnds ==
    [][\A u \in Users :
          (/\ day' # day
           /\ HandlersQuiet /\ failures = 0
           /\ PersistedWords(u, day) >= DAILY_WORD_REQUIREMENT) => u \in allow]_vars

\* -------------------------------------------------------------------- C15
\* C15, as stated: when the handler ends its feedback, the allow of the author
\* has been set if and only if the recomputed total is at the requirement or
\* over it, and under the requirement no permission has changed.
C15_GrantIffThreshold ==
    [][\A h \in Messages :
          (jm[h].pc = "feedback" /\ jm'[h].pc = "done") =>
              IF jm[h].total_words >= DAILY_WORD_REQUIREMENT
              THEN allow' = allow \cup {jm[h].user} /\ jm[h].user \in allow'
              ELSE allow' = allow]_vars

\* C15, amended: as stated when set_permissions does not raise; when it
\* raises, no overwrite is set and the reply carries a note.
C15_GrantIffThresholdUnlessCallFails ==
    [][\A h \in Messages :
          (jm[h].pc = "feedback" /\ jm'[h].pc = "done") =>
              IF jm[h].total_words >= DAILY_WORD_REQUIREMENT
              THEN \/ /\ failures' = failures
                      /\ allow' = allow \cup {jm[h].user}
                      /\ jm'[h].reply = "unlocked"
                   \/ /\ failures' = failures + 1
                      /\ allow' = allow
                      /\ jm'[h].reply = "note"
              ELSE /\ failures' = failures
                   /\ allow' = allow
                   /\ jm'[h].reply = "remaining"]_vars

\* two messages of one user on one day: the first, under the requirement, is
\* told the words that remain; the second reaches it and is granted
C15_Witness ==
    \E h, k \in Messages :
        /\ jm[h].user = jm[k].user /\ jm[h].today = jm[k].today
        /\ jm[h].pc = "done" /\ jm[h].reply = "remaining"
        /\ jm[h].total_words = 250
        /\ jm[k].pc = "done" /\ jm[k].reply = "unlocked"
        /\ jm[k].total_words = 500
        /\ jm[k].user \in allow

\* -------------------------------------------------------------------- C17
\* C17: with no handler and no reset at work, after the reset of a day after
\* day 0 has run, a user holds the allow only if the entries of that day reach
\* the requirement.  Stated of the users with a journal channel and of runs in
\* which no call has failed.
C17_AllowOnlyForTodaysWords ==
    (/\ day > 0
     /\ ~resetDue /\ resetQueue = <<>>
     /\ HandlersQuiet
     /\ failures = 0) =>
        \A u \in allow :
            (users[u].exists /\ users[u].journal_channel_id # NULL) =>
                PersistedWords(u, day) >= DAILY_WORD_REQUIREMENT

\* -------------------------------------------------------------------- C20
\* C20: a recompute whose read of the entries of the day failed does not
\* overwrite the daily_stats row with a total computed from that read: on
\* day 0 the write of a handler leaves in the row a total that counts at
\* least the entry the handler has just persisted, or leaves the row as it
\* was.
C20_FailedReadDoesNotOverwrite ==
    [][\A h \in Messages :
          (jm[h].pc = "update" /\ jm'[h].pc = "feedback" /\ day = 0) =>
              \A i \in StatsRows(jm[h].user, jm[h].today) :
                  \/ daily_stats'[i].total_words >= jm[h].word_count
                  \/ daily_stats'[i] = daily_stats[i]]_vars

\* -------------------------------------------------------------------- C16
\* C16, as stated: the refusal of the command of a user without has_access
\* leaves the users, journal_entries and daily_stats rows and the permissions
\* as they were.
C16_RefusalHasNoSideEffect ==
    [][\A g \in Commands :
          (gm[g].reply # "refused" /\ gm'[g].reply = "refused") =>
              UNCHANGED <<users, journal_entries, daily_stats, allow>>]_vars

\* C16, amended: the refusal leaves the users and journal_entries rows and
\* the permissions as they were, and the daily_stats rows too when the select
\* of get_or_create_daily_stats found a row of the user for today; when it
\* found none, one row of (user, today) with total_words 0 and has_access
\* false has been inserted.
C16_RefusalOnlyInsertsEmptyStats ==
    [][\A g \in Commands :
          /\ (gm[g].pc = "idle" /\ gm'[g].pc \in {"insert", "done"}) =>
                UNCHANGED <<users, journal_entries, daily_stats, allow>>
          /\ (gm[g].reply # "refused" /\ gm'[g].reply = "refused") =>
                /\ UNCHANGED <<users, journal_entries, allow>>
                /\ IF gm[g].pc = "insert"
                   THEN daily_stats' =
                            Append(daily_stats,
                                   [discord_id |-> gm[g].user, date |-> gm[g].today,
                                    total_words |-> 0, has_access |-> FALSE])
                   ELSE daily_stats' = daily_stats]_vars

\* a command has been refused to a user without an entry today, and the
\* daily_stats table holds a row of that user for today
C16_Witness ==
    \E g \in Commands :
        /\ gm[g].reply = "refused"
        /\ GetJournalEntriesForDate(gm[g].user, gm[g].today) = <<>>
        /\ \E i \in DOMAIN daily_stats :
              /\ daily_stats[i].discord_id = gm[g].user
              /\ daily_stats[i].date = gm[g].today
              /\ daily_stats[i].total_words = 0
              /\ ~daily_stats[i].has_access

\* -------------------------------------------------------------------- C19
\* check_daily_reset alone: the bot has run through an hour of day 0 and its
\* iteration of that hour; some users hold the allow; no message arrives
ResetInit ==
    /\ users \in {[u \in Users |->
                     IF u = ProvUser \/ both
                     THEN [exists |-> TRUE, journal_channel_id |-> ChannelOf(u)]
                     ELSE [exists |-> TRUE, journal_channel_id |-> NULL]] :
                  both \in BOOLEAN}
    /\ text_channels = {} /\ created = {} /\ dm = <<>>
    /\ failures = 0
    /\ day = 0 /\ hour \in 0..MaxHour
    /\ journal_entries = <<>> /\ daily_stats = <<>>
    /\ allow \in SUBSET Users
    /\ jm = [h \in Messages |-> IdleJm]
    /\ gm = <<>>
    /\ llm_calls = {}
    /\ resetDue = FALSE /\ resetQueue = <<>>

\* the bot is not running while the hour changes (teardown cancels the loop):
\* the clock moves and no iteration is due
DownTick ==
    /\ ~resetDue /\ resetQueue = <<>>
    /\ hour < MaxHour \/ day < MaxDay
    /\ hour' = IF hour = MaxHour THEN 0 ELSE hour + 1
    /\ day' = IF hour = MaxHour THEN day + 1 ELSE day
    /\ UNCHANGED <<provVars, failures, journal_entries, daily_stats, allow, jm,
                   gm, llm_calls, resetDue, resetQueue>>

\* the bot starts: setup calls check_daily_reset.start(), and the loop runs
\* its first iteration as soon as the bot is ready
Restart ==
    /\ ~resetDue /\ resetQueue = <<>>
    /\ resetDue' = TRUE
    /\ UNCHANGED <<provVars, failures, day, hour, journal_entries, daily_stats,
                   allow, jm, gm, llm_calls, resetQueue>>

ResetNext ==
    \/ Tick \/ DownTick \/ Restart
    \/ ResetCheck \/ ResetRevoke \/ ResetCallFails

ResetSpec == ResetInit /\ [][ResetNext]_vars

\* C19: the hourly check never skips a day whose first hour it did not
\* observe, or whose first check failed: an iteration that runs in a later
\* hour of a day after day 0 and finds a user with a journal channel who
\* still holds an allow of an earlier day starts the revocation pass.
C19_LaterCheckCatchesUp ==
    [][(/\ resetDue /\ ~resetDue'
        /\ day > 0 /\ hour > 0
        /\ \E u \in allow : users[u].journal_channel_id # NULL) =>
            resetQueue' # <<>>]_vars

\* -------------------------------------------------------------------- C21
\* C21: an attempt that finds the channel of its stored journal_channel_id in
\* the guild creates no channel, deletes none and leaves the binding as it
\* is; an attempt that found that channel gone, and cleared the id, ends with
\* the binding on a channel that the guild has.  Stated of runs in which no
\* call has failed.
C21_BoundAttemptKeepsOrRebinds ==
    [][\A p \in Attempts :
          /\ (/\ dm[p].pc = "resolve" /\ dm'[p] # dm[p]
              /\ GetChannel(dm[p].db_channel_id)) =>
                 /\ dm'[p].pc = "done"
                 /\ UNCHANGED <<users, text_channels, created>>
          /\ (/\ dm[p].pc # "done" /\ dm'[p].pc = "done"
              /\ dm[p].cleared /\ failures' = 0) =>
                 /\ journal_channel_id' # NULL
                 /\ GetChannel(journal_channel_id')]_vars

\* -------------------------------------------------------------------- C22
\* C22: create_journal_channel goes on to create a channel only when the
\* guild has no channel of the expected name that the user can read; when it
\* has one, that channel is returned.
C22_CreatesOnlyWithoutAccessibleChannel ==
    [][\A p \in Attempts :
          (dm[p].pc = "lookup" /\ dm'[p].pc # "lookup") =>
              IF \E c \in text_channels : c.readable
              THEN /\ dm'[p].pc = "cas"
                   /\ ReadMessages(dm'[p].channel)
              ELSE dm'[p].pc = "create"]_vars

\* -------------------------------------------------------------------- C27
\* C27: the daily_stats table holds at most one row for a user and a date,
\* whatever handlers and commands run get_or_create_daily_stats together.
\* Stated of runs in which no call has failed.
C27_OneStatsRowPerUserAndDate ==
    failures = 0 =>
        \A u \in Users, d \in 0..MaxDay : Cardinality(StatsRows(u, d)) <= 1

\* -------------------------------------------------------------------- C25
\* C25: when generate_content fails in an accepted command, the handler ends
\* with the apology sent to the invoker: no exception leaves it, and the
\* users, the entries, the daily stats and the overwrites are as they were.
C25_LLMFailureIsReported ==
    [][\A g \in Commands :
          (gm[g].pc = "llm" /\ gm'[g] # gm[g] /\ gm'[g].reply # "response") =>
              /\ gm'[g].pc = "done"
              /\ gm'[g].reply = "error"
              /\ UNCHANGED <<users, journal_entries, daily_stats, allow>>]_vars

\* a command whose call of the model failed has ended with the apology
C25_Witness ==
    \E g \in Commands :
        /\ g \in llm_calls
        /\ gm[g].pc = "done" /\ gm[g].reply = "error"
        /\ failures > 0

\* -------------------------------------------------------------------- C26
\* C26: the recorder does not look at message_id: every delivery of a message
\* with words appends a row, also when a row of that message_id is there, and
\* the recompute that reads the entries counts every row of the user and the
\* day, the rows of one message_id as often as they are there.
C26_RedeliveryIsRecordedAgain ==
    [][\A h \in Messages :
          /\ (jm[h].pc = "idle" /\ jm'[h].pc = "recompute") =>
                journal_entries' =
                    Append(journal_entries,
                           [discord_id |-> jm'[h].user,
                            message_id |-> jm'[h].message_id,
                            day |-> day,
                            word_count |-> jm'[h].word_count])
          /\ (jm[h].pc = "recompute" /\ jm'[h].pc = "select"
                /\ failures' = failures) =>
                jm'[h].total_words = PersistedWords(jm[h].user, day)]_vars

\* a message of 250 words was delivered twice: two rows hold its message_id,
\* and the handler of the second delivery, whose total is the requirement,
\* has granted the allow
C26_Witness ==
    \E h \in Messages, i, j \in DOMAIN journal_entries :
        /\ i < j
        /\ journal_entries[i].message_id = journal_entries[j].message_id
        /\ journal_entries[i].word_count = 250
        /\ Len(journal_entries) = 2
        /\ jm[h].message_id = journal_entries[j].message_id
        /\ jm[h].total_words = DAILY_WORD_REQUIREMENT
        /\ jm[h].reply = "unlocked"
        /\ jm[h].user \in allow

\* -------------------------------------------------------------------- C23
\* handle_gemini_command from the read of the entries to the text for the
\* model, alone: the table holds up to MaxEntries rows, in the order of
\* their insert; a row carries the name its author had when it was written
MaxEntries == 3
\* created_at: the instants of a day that are told apart
InstantsPerDay == 2
Instants == 0..(InstantsPerDay * (MaxDay + 1) - 1)
DayOf(created_at) == created_at \div InstantsPerDay
\* message.author.name: user 1 has changed the name, user 2 has not
Usernames(u) == IF u = ProvUser THEN {"ann", "anna"} ELSE {"bob"}

AggRows ==
    UNION {[discord_id : {u}, discord_username : Usernames(u),
            created_at : Instants] : u \in Users}

AggTables ==
    UNION {{[i \in 1..n |->
                [discord_id |-> f[i].discord_id,
                 discord_username |-> f[i].discord_username,
                 message_id |-> i,
                 day |-> DayOf(f[i].created_at),
                 created_at |-> f[i].created_at,
                 word_count |-> 250]] :
            f \in {t \in [1..n -> AggRows] :
                      \A i, j \in 1..n : i < j => t[i].created_at <= t[j].created_at}} :
           n \in 1..MaxEntries}

\* the orders in which a select without "order" may return n rows
Orders(n) == {f \in [1..n -> 1..n] : \A i, j \in 1..n : f[i] = f[j] => i = j}

\* user_key = (entry['discord_id'], entry['discord_username'])
UserKey(entry) == <<entry.discord_id, entry.discord_username>>

RECURSIVE KeysOf(_)
\* the keys of users_journals, a dict: in the order of their first entry
KeysOf(entries) ==
    IF entries = <<>> THEN <<>>
    ELSE LET front == KeysOf(SubSeq(entries, 1, Len(entries) - 1))
             k == UserKey(entries[Len(entries)])
         IN  IF \E i \in DOMAIN front : front[i] = k THEN front
             ELSE Append(front, k)

RECURSIVE SortedByCreatedAt(_)
\* sorted(user_entries, key=lambda e: e['created_at']): stable
SortedByCreatedAt(entries) ==
    IF entries = <<>> THEN <<>>
    ELSE LET n == Len(entries)
             front == SortedByCreatedAt(SubSeq(entries, 1, n - 1))
             e == entries[n]
             before == SelectSeq(front, LAMBDA x : x.created_at <= e.created_at)
             after == SelectSeq(front, LAMBDA x : x.created_at > e.created_at)
         IN  before \o <<e>> \o after

AggIdle == [pc |-> "entries", today |-> 0, entries |-> <<>>,
            users_journals |-> <<>>, journal_texts |-> <<>>, reply |-> "none"]

AggInit ==
    /\ users = [u \in Users |-> [exists |-> TRUE, journal_channel_id |-> ChannelOf(u)]]
    /\ text_channels = {} /\ created = {} /\ dm = <<>> /\ failures = 0
    /\ day \in 0..MaxDay /\ hour = 0
    /\ journal_entries \in AggTables
    /\ daily_stats = <<>> /\ allow = {} /\ jm = <<>>
    /\ gm = [g \in Commands |-> [AggIdle EXCEPT !.today = day]]
    /\ llm_calls = {}
    /\ resetDue = FALSE /\ resetQueue = <<>>

\* entries = db.get_all_journal_entries_for_date(today): the rows of the day,
\* in an order of the database's choice; none: "No journal entries"
AggFetch(g) ==
    /\ gm[g].pc = "entries"
    /\ LET rows == GetAllJournalEntriesForDate(gm[g].today)
       IN  IF rows = <<>>
           THEN gm' = [gm EXCEPT ![g].pc = "done", ![g].reply = "no_entries"]
           ELSE \E f \in Orders(Len(rows)) :
                   gm' = [gm EXCEPT ![g].pc = "group",
                                    ![g].entries = [i \in 1..Len(rows) |-> rows[f[i]]]]
    /\ UNCHANGED <<provVars, failures, day, hour, journal_entries, daily_stats,
                   allow, jm, llm_calls, resetDue, resetQueue>>

\* for entry in entries: users_journals[user_key].append(entry)
AggGroup(g) ==
    /\ gm[g].pc = "group"
    /\ LET keys == KeysOf(gm[g].entries)
       IN  gm' = [gm EXCEPT ![g].pc = "format",
                    ![g].users_journals =
                        [i \in DOMAIN keys |->
                            [key |-> keys[i],
                             user_entries |->
                                SelectSeq(gm[g].entries,
                                          LAMBDA e : UserKey(e) = keys[i])]]]
    /\ UNCHANGED <<provVars, failures, day, hour, journal_entries, daily_stats,
                   allow, jm, llm_calls, resetDue, resetQueue>>

\* for (discord_id, username), user_entries in users_journals.items(): the
\* block "<username>'s journal:" with the contents of the sorted entries (a
\* content stands here as the row it is the content of)
AggFormat(g) ==
    /\ gm[g].pc = "format"
    /\ gm' = [gm EXCEPT ![g].pc = "llm",
                 ![g].journal_texts =
                    [i \in DOMAIN gm[g].users_journals |->
                        [username |-> gm[g].users_journals[i].key[2],
                         contents |->
                            SortedByCreatedAt(gm[g].users_journals[i].user_entries)]]]
    /\ UNCHANGED <<provVars, failures, day, hour, journal_entries, daily_stats,
                   allow, jm, llm_calls, resetDue, resetQueue>>

AggNext == \E g \in Commands : AggFetch(g) \/ AggGroup(g) \/ AggFormat(g)

AggSpec == AggInit /\ [][AggNext]_vars

RECURSIVE Flat(_)
\* the entries of the text, block after block
Flat(journal_texts) ==
    IF journal_texts = <<>> THEN <<>>
    ELSE Head(journal_texts).contents \o Flat(Tail(journal_texts))

\* C23: in the text for the model every entry of the day stands once and no
\* other entry does; the entries of one user stand together, in one block,
\* and of two entries of one user the one that stands first was not created
\* after the other.
C23_TextGroupsByUserInTimeOrder ==
    \A g \in Commands :
        gm[g].pc = "llm" =>
            LET text == Flat(gm[g].journal_texts)
            IN  /\ \A i \in DOMAIN journal_entries :
                      Cardinality({p \in DOMAIN text : text[p] = journal_entries[i]})
                          = IF journal_entries[i].day = gm[g].today THEN 1 ELSE 0
                /\ \A p, q \in DOMAIN text :
                      (p < q /\ text[p].discord_id = text[q].discord_id) =>
                          /\ text[p].created_at <= text[q].created_at
                          /\ \A r \in p..q : text[r].discord_id = text[p].discord_id

\* -------------------------------------------------------------------- C24
\* handle_gemini_command from the response of the model to its last send,
\* alone.  A character of the response stands as its position in it; a
\* response has one character at least (response.text raises when the model
\* gave none) and MaxResponseLen at most.
MaxResponseLen == 4001
\* the length over which the response is split, and the length of a chunk
MessageLimit == 2000

ResponseText(n) == [i \in 1..n |-> i]

\* response_text[i:j]: the characters i (counted from 0) to j - 1, as far as
\* the text goes
Slice(text, i, j) ==
    SubSeq(text, i + 1, IF j <= Len(text) THEN j ELSE Len(text))

\* range(0, len(response_text), 2000), counted 1, 2, ...
ChunkStarts(text) ==
    [k \in 1..((Len(text) + MessageLimit - 1) \div MessageLimit) |->
        (k - 1) * MessageLimit]

\* a variant of the split that keeps the chunks of full length only: the
\* rest of the response is lost.  C24 must tell it from Chunks.
ChunksOfFullLength(text) ==
    [k \in 1..(Len(text) \div MessageLimit) |->
        Slice(text, (k - 1) * MessageLimit, k * MessageLimit)]

\* chunks = [response_text[i:i+2000] for i in range(0, len(response_text), 2000)]
Chunks(text) ==
    [k \in DOMAIN ChunkStarts(text) |->
        Slice(text, ChunkStarts(text)[k], ChunkStarts(text)[k] + MessageLimit)]

ChunkIdle == [pc |-> "respond", response_text |-> <<>>, chunks |-> <<>>,
              sent |-> <<>>, reply |-> "none"]

ChunkInit ==
    /\ users = [u \in Users |-> [exists |-> TRUE, journal_channel_id |-> ChannelOf(u)]]
    /\ text_channels = {} /\ created = {} /\ dm = <<>> /\ failures = 0
    /\ day = 0 /\ hour = 0
    /\ journal_entries = <<>> /\ daily_stats = <<>> /\ allow = {} /\ jm = <<>>
    /\ \E n \in 1..MaxResponseLen :
          gm = [g \in Commands |->
                  [ChunkIdle EXCEPT !.response_text = ResponseText(n)]]
    /\ llm_calls = Commands
    /\ resetDue = FALSE /\ resetQueue = <<>>

\* if len(response_text) > 2000: the response is split
ChunkSplit(g) ==
    /\ gm[g].pc = "respond"
    /\ Len(gm[g].response_text) > MessageLimit
    /\ gm' = [gm EXCEPT ![g].pc = "chunks",
                        ![g].chunks = Chunks(gm[g].response_text)]
    /\ UNCHANGED <<provVars, failures, day, hour, journal_entries, daily_stats,
                   allow, jm, llm_calls, resetDue, resetQueue>>

\* interaction.followup.send(chunks[0]); for chunk in chunks[1:]:
\* interaction.channel.send(chunk)
ChunkSend(g) ==
    /\ gm[g].pc = "chunks"
    /\ LET k == Len(gm[g].sent) + 1
       IN  gm' = [gm EXCEPT ![g].sent = Append(gm[g].sent, gm[g].chunks[k]),
                            ![g].pc = IF k = Len(gm[g].chunks)
                                      THEN "done" ELSE "chunks",
                            ![g].reply = "response"]
    /\ UNCHANGED <<provVars, failures, day, hour, journal_entries, daily_stats,
                   allow, jm, llm_calls, resetDue, resetQueue>>

\* else: interaction.followup.send(response_text)
ChunkSendWhole(g) ==
    /\ gm[g].pc = "respond"
    /\ Len(gm[g].response_text) <= MessageLimit
    /\ gm' = [gm EXCEPT ![g].sent = <<gm[g].response_text>>,
                        ![g].pc = "done", ![g].reply = "response"]
    /\ UNCHANGED <<provVars, failures, day, hour, journal_entries, daily_stats,
                   allow, jm, llm_calls, resetDue, resetQueue>>

\* a send raises: the apology is sent, and the chunks that are left are not
ChunkCallFails(g) ==
    /\ failures < MaxFailures
    /\ failures' = failures + 1
    /\ \/ gm[g].pc = "chunks"
       \/ gm[g].pc = "respond" /\ Len(gm[g].response_text) <= MessageLimit
    /\ gm' = [gm EXCEPT ![g].pc = "done", ![g].reply = "error"]
    /\ UNCHANGED <<provVars, day, hour, journal_entries, daily_stats, allow, jm,
                   llm_calls, resetDue, resetQueue>>

ChunkNext ==
    \E g \in Commands :
        \/ ChunkSplit(g)
        \/ ChunkSend(g)
        \/ ChunkSendWhole(g)
        \/ ChunkCallFails(g)

ChunkSpec == ChunkInit /\ [][ChunkNext]_vars

RECURSIVE Concat(_)
\* the messages, one after the other
Concat(messages) ==
    IF messages = <<>> THEN <<>>
    ELSE Head(messages) \o Concat(Tail(messages))

\* C24: the messages that carry a response, once the last is sent, are the
\* response when put together; none is longer than the limit; all but the
\* last have the length of the limit; and a response that is not longer than
\* the limit is one message.  While they are sent, they are the beginning of
\* the response.
C24_ChunksAreTheResponse ==
    \A g \in Commands :
        LET text == gm[g].response_text
            sent == gm[g].sent
        IN  /\ Concat(sent) = SubSeq(text, 1, Len(Concat(sent)))
            /\ \A k \in DOMAIN sent :
                  /\ Len(sent[k]) <= MessageLimit
                  /\ Len(sent[k]) >= 1
                  /\ k < Len(sent) => Len(sent[k]) = MessageLimit
            /\ (gm[g].pc = "done" /\ gm[g].reply = "response") =>
                  /\ Concat(sent) = text
                  /\ Len(text) <= MessageLimit => Len(sent) = 1
                  /\ Len(text) > MessageLimit => Len(sent) > 1

\* a response of more than two chunks has been sent: its last chunk is
\* shorter than the others
C24_Witness ==
    \E g \in Commands :
        /\ gm[g].pc = "done" /\ gm[g].reply = "response"
        /\ Len(gm[g].sent) = 3
        /\ Len(gm[g].sent[3]) < MessageLimit

\* -------------------------------------------------------------------- C28
\* on_message before handle_dm and handle_journal_message: the messages are
\* given with their author, the author's bot flag, their channel and the
\* number of their words.  A channel name is the tuple of its characters.
JournalPrefix == <<"j", "o", "u", "r", "n", "a", "l", "-">>

\* name.startswith(prefix)
StartsWith(name, prefix) ==
    /\ Len(name) >= Len(prefix)
    /\ SubSeq(name, 1, Len(prefix)) = prefix

\* the channels a message may come from: the direct messages of the user who
\* is provisioned; the journal of user 2; text channels whose names hold
\* "journal" but do not begin with "journal-"; a thread under a journal name
DMChannel == [type |-> "dm", name |-> <<>>, owner |-> ProvUser]
MessageChannels ==
    {DMChannel,
     [type |-> "text", name |-> JournalPrefix \o <<"b", "o", "b">>, owner |-> 2],
     [type |-> "text", name |-> <<"g", "e", "n", "e", "r", "a", "l">>, owner |-> 0],
     [type |-> "text", name |-> <<"j", "o", "u", "r", "n", "a", "l">>, owner |-> 0],
     [type |-> "text", name |-> <<"m", "y", "-">> \o JournalPrefix, owner |-> 0],
     [type |-> "thread", name |-> JournalPrefix \o <<"b", "o", "b">>, owner |-> 2]}

\* a variant of is_journal_channel without the test of the name: every text
\* channel is a journal.  C28 must tell it from IsJournalChannel.
IsJournalChannelOfAnyName(channel) == channel.type = "text"

\* is_journal_channel: a TextChannel whose name starts with "journal-"
IsJournalChannel(channel) ==
    IF channel.type # "text" THEN FALSE
    ELSE StartsWith(channel.name, JournalPrefix)

\* the messages: a direct message is written by the owner of that channel
IncomingMessages ==
    {m \in [author : Users, author_bot : BOOLEAN, channel : MessageChannels,
            words : {0, 250}] :
        m.channel.type = "dm" => m.author = m.channel.owner}

\* a handler of on_message that holds its message
Incoming(m) ==
    [pc |-> "idle", user |-> 0, message_id |-> 0, word_count |-> 0,
     today |-> 0, total_words |-> 0, reply |-> "none", message |-> m]

DispatchInit ==
    /\ users \in {[u \in Users |->
                     IF u = ProvUser THEN r
                     ELSE [exists |-> TRUE, journal_channel_id |-> ChannelOf(u)]] :
                  r \in {NoUser, [exists |-> TRUE, journal_channel_id |-> NULL]}}
    /\ text_channels = {} /\ created = {}
    /\ dm = [p \in Attempts |-> IdleDm]
    /\ failures = 0
    /\ day = 0 /\ hour = 0
    /\ journal_entries = <<>> /\ daily_stats = <<>> /\ allow = {}
    /\ jm \in [Messages -> {Incoming(m) : m \in IncomingMessages}]
    /\ gm = <<>> /\ llm_calls = {}
    /\ resetDue = FALSE /\ resetQueue = <<>>

\* on_message(message): a message of a bot is dropped; a direct message goes
\* to handle_dm, and nothing else is done with it; a message of a journal
\* channel goes to handle_journal_message, with user_id = message.author.id
\* and word_count = len(content.split()); any other message is dropped
OnMessage(h) ==
    /\ jm[h].pc = "idle"
    /\ \A k \in Messages : k < h => jm[k].pc # "idle"
    /\ LET m == jm[h].message
       IN  IF m.author_bot
           THEN /\ jm' = [jm EXCEPT ![h].pc = "dropped"]
                /\ UNCHANGED <<provVars, failures, day, hour, journal_entries,
                               daily_stats, allow, gm, llm_calls, resetDue,
                               resetQueue>>
           ELSE IF m.channel.type = "dm"
           THEN /\ \E p \in Attempts : DmStart(p)
                /\ jm' = [jm EXCEPT ![h].pc = "handle_dm"]
                /\ UNCHANGED <<text_channels, created, failures, day, hour,
                               journal_entries, daily_stats, allow, gm,
                               llm_calls, resetDue, resetQueue>>
           ELSE IF IsJournalChannel(m.channel)
           THEN /\ JmRecord(h)
                /\ jm'[h].user = m.author
                /\ jm'[h].message_id = h
                /\ jm'[h].word_count = m.words
           ELSE /\ jm' = [jm EXCEPT ![h].pc = "dropped"]
                /\ UNCHANGED <<provVars, failures, day, hour, journal_entries,
                               daily_stats, allow, gm, llm_calls, resetDue,
                               resetQueue>>

\* a call of a handler that has its message raises
DispatchCallFails(h) == jm[h].pc \notin {"idle", "handle_dm", "dropped"} /\ JmCallFails(h)

DispatchNext ==
    \/ \E h \in Messages :
        \/ OnMessage(h)
        \/ JmRecompute(h)
        \/ JmSelectStats(h)
        \/ JmInsertStats(h)
        \/ JmUpdateStats(h)
        \/ JmFeedback(h)
        \/ DispatchCallFails(h)
    \/ \E p \in Attempts :
        \/ DmResolveExisting(p)
        \/ DmLookupChannel(p)
        \/ DmCreateChannel(p)
        \/ DmConditionalWrite(p)
        \/ DmReread(p)
        \/ DmDeleteDuplicate(p)
        \/ DmConfirm(p)
        \/ dm[p].pc # "idle" /\ DmCallFails(p)

DispatchSpec == DispatchInit /\ [][DispatchNext]_vars

\* the name of the channel begins with the eight characters of "journal-"
JournalNamed(channel) ==
    /\ Len(channel.name) >= 8
    /\ \A i \in 1..8 : channel.name[i] = JournalPrefix[i]

\* C28: the message of a bot changes nothing; a direct message starts one
\* attempt of handle_dm and neither it nor any step of an attempt touches
\* the entries, the daily stats or the overwrites; a message of a channel
\* that is not a text channel named "journal-..." changes nothing; a message
\* with words of a channel so named is recorded as an entry of its author,
\* whoever the channel belongs to.
C28_DispatchIsExclusive ==
    [][/\ \A h \in Messages :
            (jm[h].pc = "idle" /\ jm'[h].pc # "idle") =>
              LET m == jm[h].message
              IN  IF m.author_bot
                  THEN UNCHANGED <<users, text_channels, created, dm,
                                   journal_entries, daily_stats, allow>>
                  ELSE IF m.channel.type = "dm"
                  THEN /\ UNCHANGED <<journal_entries, daily_stats, allow>>
                       /\ Cardinality({p \in Attempts : dm'[p] # dm[p]}) = 1
                       /\ jm'[h].pc = "handle_dm"
                  ELSE IF m.channel.type = "text" /\ JournalNamed(m.channel)
                  THEN /\ jm'[h].user = m.author
                       /\ UNCHANGED <<text_channels, created, dm, daily_stats, allow>>
                       /\ IF m.words = 0
                          THEN UNCHANGED <<users, journal_entries>>
                          ELSE /\ Len(journal_entries') = Len(journal_entries) + 1
                               /\ journal_entries'[Len(journal_entries')].discord_id
                                      = m.author
                               /\ journal_entries'[Len(journal_entries')].word_count
                                      = m.words
                  ELSE UNCHANGED <<users, text_channels, created, dm,
                                   journal_entries, daily_stats, allow>>
       /\ (dm' # dm) => UNCHANGED <<journal_entries, daily_stats, allow>>]_vars

\* a message of user 1 in the journal of user 2 has been recorded as an
\* entry of user 1, after a direct message that started an attempt
C28_Witness ==
    \E h, k \in Messages :
        /\ jm[k].pc = "handle_dm"
        /\ jm[h].message.channel.owner = 2 /\ jm[h].message.author = 1
        /\ jm[h].pc = "done" /\ jm[h].reply = "remaining"
        /\ \E i \in DOMAIN journal_entries :
              /\ journal_entries[i].discord_id = 1
              /\ journal_entries[i].message_id = h
        /\ \E p \in Attempts : dm[p].outcome = "created"

====
